---- MODULE Spec2Model ----
(***************************************************************************)
(* A model of spotifAI.py: the parameter and instrumentation resolvers,    *)
(* the notation sanitizer (clean_abc), the part builder's text assembly    *)
(* (create_part_from_abc), the percussion remapper (process_drum_part),    *)
(* the dynamics shaper of generate_part and the score synthesizer          *)
(* (create_song).                                                          *)
(*                                                                         *)
(* Text is a sequence of one-character strings.  A JSON value is a tagged  *)
(* record (Num, Str); a JSON object is a function from the keys present    *)
(* to values, so that dict.get(k, d) is a lookup with a default.           *)
(***************************************************************************)
EXTENDS Integers, Sequences, FiniteSets, TLC

VARIABLES
    pc,                 \* position of the modelled call
    response,           \* determine_musical_parameters: what the service answered
    params,             \* determine_musical_parameters: the returned dict
    music_response,     \* generate_music: what the service answered
    cleaned,            \* generate_part: abc_notation after clean_abc
    abc_data,           \* create_part_from_abc: the lines handed to the parser
    instr_response,     \* determine_instruments: what the service answered
    instrument_groups,  \* determine_instruments: the returned mapping
    call,               \* create_song: <<instr_name, channel>> passed to generate_part
    parsed,             \* create_drum_part: pitch names of the parsed notes
    midi,               \* the drum part's key numbers
    form,               \* params['form'] of the dynamics shaper
    measures,           \* params['measures'] of the dynamics shaper
    part_measures,      \* number of Measure objects of the part being shaped
    measure_count,      \* generate_part: the loop's measure counter
    band,               \* generate_part: <<vel_min, vel_max>> of the last measure
    velocity,           \* generate_part: velocity given to a note of the last measure
    pending,            \* create_song: instruments not yet processed
    outcome,            \* create_song: outcome of each processed instrument
    valid_parts,        \* create_song: the counter
    score,              \* create_song: the parts appended to the score
    song                \* create_song: the returned value

paramVars == <<response, params>>
cleanVars == <<music_response, cleaned, abc_data>>
instrVars == <<instr_response, instrument_groups, call>>
drumVars  == <<parsed, midi>>
dynVars   == <<form, measures, part_measures, measure_count, band, velocity>>
songVars  == <<pending, outcome, valid_parts, score, song>>
vars == <<pc, paramVars, cleanVars, instrVars, drumVars, dynVars, songVars>>

\* Python's None, a record so that it compares with dicts and parts.
None == [none |-> TRUE]

\* The variables of the calls a specification does not exercise.
IdleParams == response = None /\ params = None
IdleClean  == music_response = None /\ cleaned = <<>> /\ abc_data = <<>>
IdleInstr  == instr_response = None /\ instrument_groups = None /\ call = None
IdleDrum   == parsed = <<>> /\ midi = <<>>
IdleDyn    == /\ form = <<>> /\ measures = 0 /\ part_measures = 0
              /\ measure_count = 0 /\ band = <<0, 0>> /\ velocity = 0
IdleSong   == /\ pending = <<>> /\ outcome = <<>> /\ valid_parts = 0
              /\ score = <<>> /\ song = None

Min(a, b) == IF b < a THEN b ELSE a
Max(a, b) == IF b > a THEN b ELSE a

Num(n) == [tag |-> "num", val |-> n]
Str(s) == [tag |-> "str", val |-> s]
\* A JSON number written with a fraction part (100.0), of the value n.
Float(n) == [tag |-> "float", val |-> n]

(***************************************************************************)
(* Parameter Resolver: determine_musical_parameters, validate_parameters,  *)
(* get_default_parameters.                                                 *)
(***************************************************************************)
MinTempo == 90
MaxTempo == 140
MinMeasures == 64
MaxMeasures == 128
DefaultTempo == 120
DefaultMeasures == 64
DefaultForm ==
    <<"I", "n", "t", "r", "o", "-", "V", "e", "r", "s", "e", "-", "C", "h",
      "o", "r", "u", "s", "-", "V", "e", "r", "s", "e", "-", "C", "h", "o",
      "r", "u", "s", "-", "B", "r", "i", "d", "g", "e", "-", "C", "h", "o",
      "r", "u", "s", "-", "O", "u", "t", "r", "o">>

get_default_parameters ==
    [tempo |-> DefaultTempo, time_signature |-> "4/4", key |-> "C",
     measures |-> DefaultMeasures, form |-> DefaultForm]

\* dict.get(k, d)
Get(d, k, default) == IF k \in DOMAIN d THEN d[k] ELSE default

\* max(lo, min(v, hi)) of line 81 and 84: Python compares numbers only, a
\* string or null raises TypeError.
ClampRaises(v) == v.tag \notin {"num", "float"}
\* The clamp with the upper limit forgotten.
ClampNoUpper(v, lo, hi) == Max(lo, v.val)

Clamp(v, lo, hi) == Max(lo, Min(v.val, hi))

ValidateRaises(p) ==
    \/ ClampRaises(Get(p, "tempo", Num(DefaultTempo)))
    \/ ClampRaises(Get(p, "measures", Num(DefaultMeasures)))

validate_parameters(p) ==
    [tempo |-> Clamp(Get(p, "tempo", Num(DefaultTempo)), MinTempo, MaxTempo),
     time_signature |-> Get(p, "time_signature", Str("4/4")).val,
     key |-> Get(p, "key", Str("C")).val,
     measures |-> Clamp(Get(p, "measures", Num(DefaultMeasures)),
                        MinMeasures, MaxMeasures),
     form |-> Get(p, "form", Str(DefaultForm)).val]

\* What the generation service can answer: the call raises, the text does not
\* decode, or it decodes to an object.
Margin == 2
TempoInputs ==
    {Num(n) : n \in (MinTempo - Margin)..(MaxTempo + Margin)}
        \cup {Num(-1), Num(0), Num(1000), Float(100), Str("fast")}
MeasuresInputs ==
    {Num(n) : n \in (MinMeasures - Margin)..(MaxMeasures + Margin)}
        \cup {Num(-1), Num(0), Num(1000), Float(100), Str("many")}

Absent == [tag |-> "absent", val |-> 0]

\* The JSON object holding the given values, a key left out when Absent.
Obj(t, m, k, s) ==
    LET all == [tempo |-> t, measures |-> m, key |-> k, time_signature |-> s]
    IN  [x \in {y \in DOMAIN all : all[y].tag # "absent"} |-> all[x]]

ParamResponses ==
    {[kind |-> "raise"], [kind |-> "badjson"], [kind |-> "nonobject"]}
        \cup {[kind |-> "json", obj |-> Obj(t, m, k, s)] :
                t \in TempoInputs \cup {Absent},
                m \in MeasuresInputs \cup {Absent},
                k \in {Str("G"), Absent},
                s \in {Str("3/4"), Absent}}

\* Lines 39-64: a failed call, a JSONDecodeError and any exception raised
\* while validating (a list has no .get, a string does not compare with an
\* int) all end in get_default_parameters().
determine_musical_parameters(r) ==
    IF r.kind # "json" THEN get_default_parameters
    ELSE IF ValidateRaises(r.obj) THEN get_default_parameters
    ELSE validate_parameters(r.obj)

InitParams ==
    /\ pc = "start"
    /\ response \in ParamResponses
    /\ params = None
    /\ IdleClean /\ IdleInstr /\ IdleDrum /\ IdleDyn /\ IdleSong

DetermineMusicalParameters ==
    /\ pc = "start"
    /\ params' = determine_musical_parameters(response)
    /\ pc' = "params_done"
    /\ UNCHANGED <<response, cleanVars, instrVars, drumVars, dynVars, songVars>>

NextParams == DetermineMusicalParameters

SpecParams == InitParams /\ [][NextParams]_vars

\* C1: whatever the service answers (tempo and measures each missing, below,
\* inside or above range, an undecodable text, a raised exception), the
\* returned parameters have 90 <= tempo <= 140 and 64 <= measures <= 128.
C1_ParamsInRange ==
    pc = "params_done" =>
        /\ MinTempo <= params.tempo /\ params.tempo <= MaxTempo
        /\ MinMeasures <= params.measures /\ params.measures <= MaxMeasures

\* An object with tempo above and measures below range was clamped.
C1_Witness ==
    /\ pc = "params_done"
    /\ response.kind = "json"
    /\ DOMAIN response.obj = {"tempo", "measures"}
    /\ response.obj["tempo"] = Num(MaxTempo + 1)
    /\ response.obj["measures"] = Num(MinMeasures - 1)
    /\ params.tempo = MaxTempo
    /\ params.measures = MinMeasures

(***************************************************************************)
(* Text helpers: Python's str methods on sequences of characters.          *)
(***************************************************************************)
Whitespace == {" ", "\n"}

RECURSIVE LStrip(_)
LStrip(s) == IF s # <<>> /\ Head(s) \in Whitespace THEN LStrip(Tail(s)) ELSE s

RECURSIVE RStrip(_)
RStrip(s) ==
    IF s # <<>> /\ s[Len(s)] \in Whitespace
    THEN RStrip(SubSeq(s, 1, Len(s) - 1)) ELSE s

\* str.strip()
Strip(s) == RStrip(LStrip(s))

\* str.split(c): the pieces between consecutive occurrences of c.
Split(s, c) ==
    LET cuts == {0} \cup {i \in 1..Len(s) : s[i] = c} \cup {Len(s) + 1}
        nth(k) == CHOOSE p \in cuts : Cardinality({q \in cuts : q < p}) = k - 1
    IN  [k \in 1..(Cardinality(cuts) - 1) |->
            SubSeq(s, nth(k) + 1, nth(k + 1) - 1)]

\* c.join(lines)
RECURSIVE Join(_, _)
Join(lines, c) ==
    IF lines = <<>> THEN <<>>
    ELSE IF Len(lines) = 1 THEN lines[1]
    ELSE lines[1] \o <<c>> \o Join(Tail(lines), c)

StartsWith(s, p) == Len(s) >= Len(p) /\ SubSeq(s, 1, Len(p)) = p
EndsWith(s, p) == Len(s) >= Len(p) /\ SubSeq(s, Len(s) - Len(p) + 1, Len(s)) = p
Contains(s, c) == \E i \in 1..Len(s) : s[i] = c
HasSubstring(s, p) == \E i \in 1..(Len(s) - Len(p) + 1) : SubSeq(s, i, i + Len(p) - 1) = p

\* str.replace(pat, rep): left to right, occurrences that do not overlap.
RECURSIVE Replace(_, _, _)
Replace(s, pat, rep) ==
    IF Len(s) < Len(pat) THEN s
    ELSE IF SubSeq(s, 1, Len(pat)) = pat
         THEN rep \o Replace(SubSeq(s, Len(pat) + 1, Len(s)), pat, rep)
         ELSE <<Head(s)>> \o Replace(Tail(s), pat, rep)

\* 'ABCDEFGHIJKLMNOPQRSTUVWXYZ'
UpperCase ==
    <<"A", "B", "C", "D", "E", "F", "G", "H", "I", "J", "K", "L", "M", "N",
      "O", "P", "Q", "R", "S", "T", "U", "V", "W", "X", "Y", "Z">>
\* 'abcdefghijklmnopqrstuvwxyz'
LowerCase ==
    <<"a", "b", "c", "d", "e", "f", "g", "h", "i", "j", "k", "l", "m", "n",
      "o", "p", "q", "r", "s", "t", "u", "v", "w", "x", "y", "z">>

\* str.lower()
LowerChar(c) ==
    IF \E i \in 1..Len(UpperCase) : UpperCase[i] = c
    THEN LowerCase[CHOOSE i \in 1..Len(UpperCase) : UpperCase[i] = c]
    ELSE c
Lower(s) == [i \in 1..Len(s) |-> LowerChar(s[i])]

(***************************************************************************)
(* Notation Sanitizer: clean_abc.                                          *)
(***************************************************************************)
\* The prefixes of line 140.
HeaderPrefixes ==
    { <<"M", ":">>, <<"L", ":">>, <<"K", ":">>, <<"X", ":">>,
      <<"T", ":">>, <<"V", ":">>, <<"%", "%">> }

IsHeader(line) == \E p \in HeaderPrefixes : StartsWith(line, p)

\* Lines 139-148: one line of the loop.
CleanLine(raw) ==
    LET line == Strip(raw)
        l1 == IF ~StartsWith(line, <<"|">>) THEN <<"|">> \o line ELSE line
        l2 == IF ~EndsWith(l1, <<"|">>) THEN l1 \o <<"|">> ELSE l1
    IN  IF IsHeader(line) THEN line
        ELSE IF Contains(line, "|") THEN l2
        ELSE line

clean_abc(text) ==
    LET t1 == Replace(text, <<"_">>, <<"b">>)
        lines == Split(Strip(t1), "\n")
        cleaned_lines == [i \in 1..Len(lines) |-> CleanLine(lines[i])]
        joined == Join(cleaned_lines, "\n")
    IN  Replace(Replace(joined, <<":", "|">>, <<"|">>), <<"|", ":">>, <<"|">>)

(***************************************************************************)
(* Part Builder: the text create_part_from_abc assembles for the parser.   *)
(***************************************************************************)
\* The prefixes of line 181.
SkipPrefixes ==
    { <<"%">>, <<"X", ":">>, <<"M", ":">>, <<"L", ":">>, <<"K", ":">>,
      <<"V", ":">>, <<"%", "%">> }

\* Lines 182-188: the even-indexed segments of line.split('"').
RECURSIVE EvenSegments(_, _)
EvenSegments(segments, i) ==
    IF segments = <<>> THEN <<>>
    ELSE (IF i % 2 = 0 THEN Head(segments) ELSE <<>>)
            \o EvenSegments(Tail(segments), i + 1)

FilteredLine(line) == EvenSegments(Split(line, "\""), 0)

\* Lines 178-190.
RECURSIVE ContentLines(_)
ContentLines(lines) ==
    IF lines = <<>> THEN <<>>
    ELSE LET line == Strip(Head(lines))
             keep == /\ line # <<>>
                     /\ ~\E p \in SkipPrefixes : StartsWith(line, p)
                     /\ Contains(FilteredLine(line), "|")
         IN  (IF keep THEN <<FilteredLine(line)>> ELSE <<>>)
                \o ContentLines(Tail(lines))

\* The characters of params['time_signature'] and params['key'] (the
\* defaults of get_default_parameters).
TimeSignatureText == <<"4", "/", "4">>
KeyText == <<"C">>

\* Lines 171-176.
Headers ==
    << <<"X", ":", "1">>,
       <<"M", ":">> \o TimeSignatureText,
       <<"L", ":", "1", "/", "8">>,
       <<"K", ":">> \o KeyText >>

\* Line 192, as the list of lines that is joined.
AssembleAbcData(text) == Headers \o ContentLines(Split(text, "\n"))

\* Lines 339-346 of generate_part: every line whose stripped text starts
\* with '[V:' becomes 'V:1'.
VoiceTagLine(line) ==
    IF StartsWith(Strip(line), <<"[", "V", ":">>) THEN <<"V", ":", "1">> ELSE line

ReplaceVoiceTags(text) ==
    LET lines == Split(text, "\n")
    IN  Join([i \in 1..Len(lines) |-> VoiceTagLine(lines[i])], "\n")

\* Line 124: the words of an answer in prose.
ProseMarkers ==
    { <<"s", "o", "r", "r", "y">>,
      <<"a", "p", "o", "l", "o", "g", "i", "z", "e">>,
      <<"h", "e", "r", "e", " ", "i", "s">>,
      <<"h", "e", "r", "e", " ", "a", "r", "e">> }

\* Lines 110-132: the stripped content; None when the call raises (lines
\* 130-132) or when the lower-cased content holds a prose marker (lines
\* 124-126).
GenerateMusicNone(r) ==
    IF r.kind = "raise" THEN TRUE
    ELSE \E w \in ProseMarkers : HasSubstring(Lower(Strip(r.content)), w)

generate_music(r) == IF GenerateMusicNone(r) THEN None ELSE Strip(r.content)

\* Line 333: not abc_notation.
NotGenerated(r) == IF GenerateMusicNone(r) THEN TRUE ELSE generate_music(r) = <<>>

\* The texts the generation service can answer with: every short text over
\* the alphabet, and some answers with and without the prose markers.
MaxLen == 4
Alphabet == {"|", ":", "a", "_", " ", "\n", "\"", "T", "V", "["}
Texts == UNION {[1..n -> Alphabet] : n \in 0..MaxLen}
LongerTexts ==
    { <<"s", "o", "r", "r", "y">>,
      <<"H", "e", "r", "e", " ", "i", "s", " ", "|", "a", "|">>,
      <<"I", " ", "a", "p", "o", "l", "o", "g", "i", "z", "e", "\n", "|", "a", "|">>,
      <<"H", "E", "R", "E", " ", "A", "R", "E", " ", "|", "a", ":", ":">>,
      <<"h", "e", "r", "e", "i", "s", " ", "|", "a", "|">>,
      <<"|", "a", " ", "b", ":", ":", "|">>,
      <<"T", ":", "H", "i", "|", "a">> }

MusicResponses ==
    {[kind |-> "raise"]}
        \cup {[kind |-> "content", content |-> t] : t \in Texts \cup LongerTexts}

InitClean ==
    /\ pc = "start"
    /\ music_response \in MusicResponses
    /\ cleaned = <<>>
    /\ abc_data = <<>>
    /\ IdleParams /\ IdleInstr /\ IdleDrum /\ IdleDyn /\ IdleSong

\* Lines 332-335: generate_part ends when generate_music gave None or an
\* empty text.
NoNotation ==
    /\ pc = "start"
    /\ NotGenerated(music_response)
    /\ pc' = "no_part"
    /\ UNCHANGED <<cleanVars, paramVars, instrVars, drumVars, dynVars, songVars>>

\* Lines 332-348: the voice tags are replaced, then clean_abc is applied.
CleanAbc ==
    /\ pc = "start"
    /\ ~NotGenerated(music_response)
    /\ cleaned' = clean_abc(ReplaceVoiceTags(generate_music(music_response)))
    /\ pc' = "cleaned"
    /\ UNCHANGED <<music_response, abc_data, paramVars, instrVars, drumVars,
                   dynVars, songVars>>

\* Lines 349-353, up to the text handed to the parser.  The sanitized text of
\* a non-empty stripped text is never empty, so the return of line 351 is
\* never taken.
CreatePartFromAbc ==
    /\ pc = "cleaned"
    /\ cleaned # <<>>
    /\ abc_data' = AssembleAbcData(cleaned)
    /\ pc' = "assembled"
    /\ UNCHANGED <<music_response, cleaned, paramVars, instrVars, drumVars,
                   dynVars, songVars>>

NextClean == NoNotation \/ CleanAbc \/ CreatePartFromAbc

SpecClean == InitClean /\ [][NextClean]_vars

\* C3: clean_abc(clean_abc(t)) = clean_abc(t) for every text t (cleaned is
\* clean_abc(t) for the text t generate_part sanitizes).
C3_Idempotent == pc = "cleaned" => clean_abc(cleaned) = cleaned

\* C4: every line of clean_abc's output that is not a header line and
\* contains '|' starts with '|' and ends with '|'.
C4_BarDelimited ==
    pc = "cleaned" =>
        \A i \in 1..Len(Split(cleaned, "\n")) :
            LET line == Split(cleaned, "\n")[i]
            IN  (~IsHeader(line) /\ Contains(line, "|")) =>
                    (StartsWith(line, <<"|">>) /\ EndsWith(line, <<"|">>))

\* C5: the output of clean_abc contains neither ':|' nor '|:'.
C5_NoRepeatMarker ==
    pc = "cleaned" =>
        /\ ~HasSubstring(cleaned, <<":", "|">>)
        /\ ~HasSubstring(cleaned, <<"|", ":">>)

\* C8: the assembled text is the four canonical header lines followed only
\* by music content: no line after them is a header line (X:, M:, L:, K:,
\* T:, V:, %%).
C8_OnlyCanonicalHeaders ==
    pc = "assembled" =>
        /\ SubSeq(abc_data, 1, 4) = Headers
        /\ \A i \in 5..Len(abc_data) : ~IsHeader(abc_data[i])

(***************************************************************************)
(* Instrumentation Resolver: determine_instruments, get_default_instruments *)
(* and the arguments create_song passes to generate_part.                  *)
(***************************************************************************)
PercussionChannel == 10
MaxChannel == 16

\* A mapping is the sequence of its <<group name, instruments>> entries in
\* the order the dict holds them (for a decoded answer, the order of the keys
\* in the JSON text); instruments is the list of <<instrument name, channel>>
\* pairs of the group.
get_default_instruments ==
    << <<"rhythm", << <<"DrumSet", PercussionChannel>>, <<"ElectricBass", 1>> >> >>,
       <<"harmony", << <<"Piano", 2>> >> >>,
       <<"lead", << <<"SynthLead", 3>> >> >>,
       <<"accompaniment", << <<"Violin", 4>> >> >>,
       <<"backing_vocals", << <<"VoiceOohs", 5>> >> >> >>

\* The keys of a mapping.
Keys(m) == {m[i][1] : i \in 1..Len(m)}

RequiredGroups == {"rhythm", "harmony", "lead"}

\* Lines 275-303: the decoded object is returned as it is when it names the
\* three required groups; every other answer gives the default mapping.
determine_instruments(r) ==
    IF r.kind # "json" THEN get_default_instruments
    ELSE IF ~(RequiredGroups \subseteq Keys(r.obj)) THEN get_default_instruments
    ELSE r.obj

\* instrument_groups.items() and the inner loop of lines 413-414: the pairs
\* in iteration order.
RECURSIVE Flatten(_)
Flatten(m) == IF m = <<>> THEN <<>> ELSE Head(m)[2] \o Flatten(Tail(m))

\* The group names an answer can use (the service may name groups of its
\* own), and the orders in which an answer can list some of them.
GroupNames == RequiredGroups \cup {"accompaniment", "strings"}
KeyOrders(S) ==
    UNION {{o \in [1..Cardinality(G) -> G] :
                \A a, b \in 1..Cardinality(G) : a # b => o[a] # o[b]} :
           G \in SUBSET S}

\* The instruments an answer gives a group when the DrumSet is not in it.
OtherInstruments(g) ==
    CASE g = "rhythm" -> << <<"ElectricBass", 1>> >>
      [] g = "harmony" -> << <<"Piano", 2>> >>
      [] g = "lead" -> << <<"SynthLead", 3>> >>
      [] g = "accompaniment" -> << <<"Violin", 4>> >>
      [] OTHER -> << <<"Cello", 6>> >>

\* The object with its keys in the given order, the DrumSet first in group
\* dg on channel ch.
InstrumentObject(order, dg, ch) ==
    [i \in 1..Len(order) |->
        <<order[i],
          (IF order[i] = dg THEN << <<"DrumSet", ch>> >> ELSE <<>>)
              \o OtherInstruments(order[i])>>]

InstrumentResponses ==
    {[kind |-> "raise"], [kind |-> "badjson"]}
        \cup {[kind |-> "json", obj |-> InstrumentObject(order, dg, ch)] :
                order \in KeyOrders(GroupNames), dg \in RequiredGroups,
                ch \in 1..MaxChannel}

InitInstr ==
    /\ pc = "start"
    /\ instr_response \in InstrumentResponses
    /\ instrument_groups = None
    /\ call = None
    /\ IdleParams /\ IdleClean /\ IdleDrum /\ IdleDyn /\ IdleSong

\* Line 409.
DetermineInstruments ==
    /\ pc = "start"
    /\ instrument_groups' = determine_instruments(instr_response)
    /\ pc' = "instruments_done"
    /\ UNCHANGED <<instr_response, call, paramVars, cleanVars, drumVars,
                   dynVars, songVars>>

\* Lines 413-416: one iteration's call of generate_part.
CallGeneratePart ==
    /\ pc = "instruments_done"
    /\ \E i \in 1..Len(Flatten(instrument_groups)) :
            call' = Flatten(instrument_groups)[i]
    /\ pc' = "generate_part"
    /\ UNCHANGED <<instr_response, instrument_groups, paramVars, cleanVars,
                   drumVars, dynVars, songVars>>

NextInstr == DetermineInstruments \/ CallGeneratePart

SpecInstr == InitInstr /\ [][NextInstr]_vars

\* C6: the mapping returned by determine_instruments, and so the channel
\* create_song passes to generate_part, gives DrumSet the channel 10, also
\* when the service's JSON gives DrumSet another channel.
C6_DrumSetChannel ==
    /\ pc \in {"instruments_done", "generate_part"} =>
        \A i \in 1..Len(Flatten(instrument_groups)) :
            Flatten(instrument_groups)[i][1] = "DrumSet" =>
                Flatten(instrument_groups)[i][2] = PercussionChannel
    /\ (pc = "generate_part" /\ call[1] = "DrumSet") => call[2] = PercussionChannel

(***************************************************************************)
(* Percussion Remapper: process_drum_part, called by create_drum_part and  *)
(* again by generate_part.                                                 *)
(***************************************************************************)
FallbackKey == 35

\* percussion_map.get(pitch_name, 35) of lines 244-256.  The key 'z' of the
\* table is no pitch name and is never looked up.
PercussionKey(pitch_name) ==
    CASE pitch_name = "C" -> 36
      [] pitch_name = "D" -> 38
      [] pitch_name = "E" -> 42
      [] pitch_name = "F" -> 46
      [] pitch_name = "G" -> 49
      [] pitch_name = "A" -> 51
      [] pitch_name = "B" -> 53
      [] OTHER -> FallbackKey

\* note_obj.pitch.name.upper() of a note whose pitch.midi was set to m: the
\* pitch is respelled from the key number (C, C#, D, E-, E, F, F#, G, G#, A,
\* B-, B).
PitchNameOfMidi(m) ==
    << "C", "C#", "D", "E-", "E", "F", "F#", "G", "G#", "A", "B-", "B" >>[(m % 12) + 1]

\* Lines 254-257 on a part whose notes have the given pitch names: the key
\* numbers afterwards.
process_drum_part(names) == [i \in 1..Len(names) |-> PercussionKey(names[i])]

PitchNamesOf(keys) == [i \in 1..Len(keys) |-> PitchNameOfMidi(keys[i])]

\* The pitch names the parser can give a note.
MaxNotes == 2
Steps == {"C", "D", "E", "F", "G", "A", "B"}
ParsedNames == Steps \cup {"C#", "F#", "E-", "B-"}

InitDrum ==
    /\ pc = "start"
    /\ parsed \in UNION {[1..n -> ParsedNames] : n \in 1..MaxNotes}
    /\ midi = <<>>
    /\ IdleParams /\ IdleClean /\ IdleInstr /\ IdleDyn /\ IdleSong

\* Lines 224-237: create_drum_part ends with process_drum_part(drum_part).
CreateDrumPart ==
    /\ pc = "start"
    /\ midi' = process_drum_part(parsed)
    /\ pc' = "drum_part_created"
    /\ UNCHANGED <<parsed, paramVars, cleanVars, instrVars, dynVars, songVars>>

\* Lines 357-358: generate_part calls process_drum_part on the returned part.
GeneratePartProcessDrum ==
    /\ pc = "drum_part_created"
    /\ midi' = process_drum_part(PitchNamesOf(midi))
    /\ pc' = "drum_done"
    /\ UNCHANGED <<parsed, paramVars, cleanVars, instrVars, dynVars, songVars>>

NextDrum == CreateDrumPart \/ GeneratePartProcessDrum

SpecDrum == InitDrum /\ [][NextDrum]_vars

\* C9: a DrumSet part that went through generate_part has each note on the
\* table value of the pitch name it had after parsing, and applying
\* process_drum_part again changes no key number.
C9_RemappedOnce ==
    pc = "drum_done" =>
        /\ \A i \in 1..Len(parsed) : midi[i] = PercussionKey(parsed[i])
        /\ process_drum_part(PitchNamesOf(midi)) = midi

(***************************************************************************)
(* Dynamics Shaper: lines 365-393 of generate_part.                        *)
(***************************************************************************)
\* Lines 367-369.
verse_words == { <<"v", "e", "r", "s", "e">> }
chorus_words == { <<"c", "h", "o", "r", "u", "s">>,
                  <<"h", "o", "o", "k">> }
bridge_words == { <<"b", "r", "i", "d", "g", "e">>,
                  <<"p", "r", "e", "-", "c", "h", "o", "r", "u", "s">> }

\* Lines 366 and 371.
Sections(f) == Split(Lower(f), "-")

\* Line 372.
SectionLen(f, total_measures) == Max(1, total_measures \div Len(Sections(f)))

\* The section index one section too far.
SectionIndexOffByOne(f, total_measures, count) ==
    (count \div SectionLen(f, total_measures)) + 1

\* Line 376: measure_count // section_len.
SectionIndex(f, total_measures, count) == count \div SectionLen(f, total_measures)

\* Lines 376-377.
CurrentSection(f, total_measures, count) ==
    LET sections == Sections(f)
        k == SectionIndex(f, total_measures, count)
    IN  Lower(IF k < Len(sections) THEN sections[k + 1] ELSE sections[Len(sections)])

AnyIn(words, section) == \E w \in words : HasSubstring(section, w)

\* Lines 379-386: <<vel_min, vel_max>>.
VelocityBand(section) ==
    IF AnyIn(verse_words, section) THEN <<60, 75>>
    ELSE IF AnyIn(chorus_words, section) THEN <<80, 100>>
    ELSE IF AnyIn(bridge_words, section) THEN <<70, 85>>
    ELSE <<65, 85>>

\* 'Intro-Verse-Chorus-Outro'
FormIVCO ==
    <<"I", "n", "t", "r", "o", "-", "V", "e", "r", "s", "e", "-", "C", "h",
      "o", "r", "u", "s", "-", "O", "u", "t", "r", "o">>
\* 'Verse-Pre-Chorus-Chorus-Bridge'
FormPreChorus ==
    <<"V", "e", "r", "s", "e", "-", "P", "r", "e", "-", "C", "h", "o", "r",
      "u", "s", "-", "C", "h", "o", "r", "u", "s", "-", "B", "r", "i", "d",
      "g", "e">>
\* 'INTRO-PRE-CHORUS-HOOK'
FormUpper ==
    <<"I", "N", "T", "R", "O", "-", "P", "R", "E", "-", "C", "H", "O", "R",
      "U", "S", "-", "H", "O", "O", "K">>
FormOneToken == <<"A", "A", "B", "A">>
Forms == {FormIVCO, DefaultForm, FormPreChorus, FormUpper, FormOneToken}

\* params['measures'] is a validated value.
MeasureChoices == {MinMeasures, 100, MaxMeasures}

\* The part has at most this many Measure objects.
MaxPartMeasures == 66

InitDyn ==
    /\ pc = "shaping"
    /\ form \in Forms
    /\ measures \in MeasureChoices
    /\ part_measures \in {0, 20, MaxPartMeasures}
    /\ measure_count = 0
    /\ band = <<0, 0>>
    /\ velocity = 0
    /\ IdleParams /\ IdleClean /\ IdleInstr /\ IdleDrum /\ IdleSong

\* Lines 375-393: one iteration of the loop over the part's measures; velocity
\* is the random.randint(vel_min, vel_max) given to a note of the measure.
ShapeMeasure ==
    /\ pc = "shaping"
    /\ measure_count < part_measures
    /\ band' = VelocityBand(CurrentSection(form, measures, measure_count))
    /\ velocity' \in band'[1]..band'[2]
    /\ measure_count' = measure_count + 1
    /\ UNCHANGED <<pc, form, measures, part_measures, paramVars, cleanVars,
                   instrVars, drumVars, songVars>>

\* Line 395.
ReturnPart ==
    /\ pc = "shaping"
    /\ measure_count = part_measures
    /\ pc' = "shaped"
    /\ UNCHANGED <<dynVars, paramVars, cleanVars, instrVars, drumVars, songVars>>

NextDyn == ShapeMeasure \/ ReturnPart

SpecDyn == InitDyn /\ [][NextDyn]_vars

\* The zero-based counter of the measure that was shaped last.
LastMeasure == measure_count - 1

\* C7 as stated: with measures = 64 and form Intro-Verse-Chorus-Outro,
\* section_len is 16 and the notes of measures 17 to 32 (counter 16 to 31)
\* get a velocity of the chorus band [80,100].
C7_ChorusInMeasures17To32 ==
    (form = FormIVCO /\ measures = 64 /\ LastMeasure \in 16..31) =>
        /\ SectionLen(form, measures) = 16
        /\ velocity \in 80..100

\* C7 amended: with measures = 64 and form Intro-Verse-Chorus-Outro,
\* section_len is 16, the notes of measures 17 to 32 (counter 16 to 31) get a
\* velocity of the verse band [60,75] and those of measures 33 to 48 (counter
\* 32 to 47) one of the chorus band [80,100].
C7_ChorusInMeasures33To48 ==
    (form = FormIVCO /\ measures = 64 /\ measure_count > 0) =>
        /\ SectionLen(form, measures) = 16
        /\ LastMeasure \in 16..31 => velocity \in 60..75
        /\ LastMeasure \in 32..47 => velocity \in 80..100

\* Measure 33 (counter 32) of such a part got the loudest chorus velocity.
C7_Witness ==
    /\ form = FormIVCO /\ measures = 64
    /\ LastMeasure = 32
    /\ band = <<80, 100>>
    /\ velocity = 100

\* The measure counted last lies in a section the form names 'pre-chorus':
\* its token is the 'pre' or the 'chorus' of a pre-chorus.
InPreChorus ==
    LET sections == Sections(form)
        k == Min(LastMeasure \div SectionLen(form, measures), Len(sections) - 1) + 1
        pre == <<"p", "r", "e">>
        chorus == <<"c", "h", "o", "r", "u", "s">>
    IN  /\ measure_count > 0
        /\ \/ sections[k] = pre /\ k < Len(sections) /\ sections[k + 1] = chorus
           \/ sections[k] = chorus /\ k > 1 /\ sections[k - 1] = pre

\* C10: when the form names a 'pre-chorus' section, in any letter case, the
\* notes of every measure of that section get a velocity in [70,85].
C10_PreChorusBand == InPreChorus => velocity \in 70..85

(***************************************************************************)
(* Score Synthesizer: create_song, with generate_part as far as it decides *)
(* whether an instrument yields a part, yields nothing or raises.          *)
(***************************************************************************)
\* A JSON array, as the service may give for 'form'.
List == [tag |-> "list", val |-> <<>>]

\* The parameter object with the given 'measures' and 'form', a key left out
\* when Absent.
FormObj(m, f) ==
    LET all == [measures |-> m, form |-> f]
    IN  [x \in {y \in DOMAIN all : all[y].tag # "absent"} |-> all[x]]

\* What the parameter service answers to create_song: the call raises, or an
\* object whose 'measures' is an integer or a float and whose 'form' is a
\* text (the default when absent) or an array.
SongParamResponses ==
    {[kind |-> "raise"],
     [kind |-> "json", obj |-> FormObj(Num(100), Absent)],
     [kind |-> "json", obj |-> FormObj(Float(100), Absent)],
     [kind |-> "json", obj |-> FormObj(Float(MinMeasures), Absent)],
     [kind |-> "json", obj |-> FormObj(Float(MaxMeasures + 1), Absent)],
     [kind |-> "json", obj |-> FormObj(Absent, List)]}

\* The answer went through validate_parameters and not to the defaults.
Validated(r) ==
    IF r.kind # "json" THEN FALSE ELSE ~ValidateRaises(r.obj)

\* Line 84 keeps the Python type: max and min return one of their arguments,
\* the first of two equal ones, so max(64, min(v, 128)) is the float v itself
\* when 64 < v <= 128 and the integer limit otherwise.
MeasuresIsFloat(r) ==
    IF ~Validated(r) THEN FALSE
    ELSE LET v == Get(r.obj, "measures", Num(DefaultMeasures))
         IN  v.tag = "float" /\ MinMeasures < v.val /\ v.val <= MaxMeasures

\* Line 85 returns 'form' as decoded, of whatever type.
FormIsText(r) ==
    IF ~Validated(r) THEN TRUE
    ELSE Get(r.obj, "form", Str(DefaultForm)).tag = "str"

\* The part holds Measure objects: create_drum_part appends notes and rests
\* only (lines 234-235), create_part_from_abc makes measures (lines 208-209).
HasMeasures(instr) == instr # "DrumSet"

\* Lines 366-376, which no try encloses: a 'form' that is no text has no
\* lower() (line 366); with a float 'measures' section_len is a float and
\* sections[0 // section_len] raises TypeError on the first measure (line
\* 376).
ShaperRaises(r, instr) ==
    IF ~FormIsText(r) THEN TRUE
    ELSE MeasuresIsFloat(r) /\ HasMeasures(instr)

\* What the collaborators do for one instrument: the generation call raises,
\* answers with nothing, answers in prose (line 124) or answers with
\* notation; the parser raises on the notation or gives a part with so many
\* notes and rests.
MaxPartNotes == 1
InstrumentOutcomes ==
    {[gen |-> "raise"], [gen |-> "empty"], [gen |-> "prose"],
     [gen |-> "abc", parse |-> "raise"]}
        \cup {[gen |-> "abc", parse |-> "ok", notes |-> n] : n \in 0..MaxPartNotes}

\* An exception leaving the call.
Raised == [raised |-> TRUE]

\* Lines 314-395: None when generate_music gave None or an empty text (lines
\* 130-132, 124-126, 333-335), when create_part_from_abc gave None (lines
\* 220-222, 239-241, 354-356) or when the part holds no note or rest (lines
\* 212-213, 360-363); an exception when the shaper raises; the part
\* otherwise.
generate_part(instr, chan, r, o) ==
    IF o.gen # "abc" THEN None
    ELSE IF o.parse = "raise" THEN None
    ELSE IF o.notes = 0 THEN None
    ELSE IF ShaperRaises(r, instr) THEN Raised
    ELSE [id |-> instr, channel |-> chan, notes |-> o.notes]

\* Line 417.
Accepted(part) == part # None /\ part.notes > 0

\* Lines 423-435: None without a valid part and when score.makeMeasures or
\* score.expandRepeats raises, the score otherwise (expandRepeats gives one
\* part for each part of the score).
SongResult(valid, parts, finalized) ==
    IF valid = 0 THEN None
    ELSE IF ~finalized THEN None
    ELSE [parts |-> parts]

\* The orders in which an answer lists the required groups, possibly with a
\* group of its own first or last.
SongOrders ==
    {o \in KeyOrders(RequiredGroups \cup {"strings"}) :
        /\ RequiredGroups \subseteq {o[k] : k \in 1..Len(o)}
        /\ Len(o) = 4 => (o[1] = "strings" \/ o[4] = "strings")}

\* The objects the instrumentation service answers to create_song: the
\* required groups and possibly one more, each group with some of its
\* instruments; the lead's entry may lack its channel (["SynthLead"]).
SongMappings ==
    {[i \in 1..Len(order) |->
        <<order[i],
          IF order[i] = "rhythm"
          THEN SubSeq(<< <<"DrumSet", PercussionChannel>>, <<"ElectricBass", 1>> >>,
                      1, nr)
          ELSE IF order[i] = "harmony"
          THEN SubSeq(OtherInstruments("harmony"), 1, nh)
          ELSE IF order[i] = "lead" /\ ~paired
          THEN << <<"SynthLead">> >>
          ELSE OtherInstruments(order[i])>>] :
        order \in SongOrders, nr \in 0..2, nh \in 0..1, paired \in BOOLEAN}

SongInstrumentResponses ==
    {[kind |-> "raise"]} \cup {[kind |-> "json", obj |-> m] : m \in SongMappings}

InitSong ==
    /\ pc = "start"
    /\ response = None
    /\ params = None
    /\ instr_response = None
    /\ instrument_groups = None
    /\ call = None
    /\ pending = <<>>
    /\ outcome = <<>>
    /\ valid_parts = 0
    /\ score = <<>>
    /\ song = None
    /\ IdleClean /\ IdleDrum /\ IdleDyn

\* Lines 399-412: the parameters are resolved, the markers are inserted
\* (meter.TimeSignature raises on a time signature it cannot read, which
\* ends create_song at line 433), the instruments are resolved.
CreateSongSetup ==
    /\ pc = "start"
    /\ \E r \in SongParamResponses, markers_ok \in BOOLEAN,
          ir \in SongInstrumentResponses :
        /\ response' = r
        /\ params' = determine_musical_parameters(r)
        /\ IF markers_ok
           THEN /\ instr_response' = ir
                /\ instrument_groups' = determine_instruments(ir)
                /\ pending' = Flatten(determine_instruments(ir))
                /\ pc' = "loop"
                /\ song' = song
           ELSE /\ instr_response' = instr_response
                /\ instrument_groups' = instrument_groups
                /\ pending' = pending
                /\ pc' = "song_done"
                /\ song' = None
    /\ UNCHANGED <<outcome, valid_parts, score, call, cleanVars, drumVars,
                   dynVars>>

\* Lines 414-421 and 433-435: one iteration.  Unpacking an entry that is no
\* pair raises (line 414); generate_part may raise; part.makeMeasures, called
\* on a part without measures, may raise (lines 418-419).  Each exception
\* ends create_song with None, whatever the score holds.
GeneratePart ==
    /\ pc = "loop"
    /\ pending # <<>>
    /\ IF Len(Head(pending)) # 2
       THEN /\ song' = None
            /\ pc' = "song_done"
            /\ UNCHANGED <<pending, outcome, valid_parts, score>>
       ELSE \E o \in InstrumentOutcomes, measures_made \in BOOLEAN :
            LET part == generate_part(Head(pending)[1], Head(pending)[2],
                                      response, o)
            IN  /\ outcome' = Append(outcome, o)
                /\ IF part = Raised
                   THEN /\ song' = None
                        /\ pc' = "song_done"
                        /\ UNCHANGED <<pending, valid_parts, score>>
                   ELSE IF ~Accepted(part)
                   THEN /\ pending' = Tail(pending)
                        /\ UNCHANGED <<pc, song, valid_parts, score>>
                   ELSE IF ~HasMeasures(part.id) /\ ~measures_made
                   THEN /\ song' = None
                        /\ pc' = "song_done"
                        /\ UNCHANGED <<pending, valid_parts, score>>
                   ELSE /\ score' = Append(score, part)
                        /\ valid_parts' = valid_parts + 1
                        /\ pending' = Tail(pending)
                        /\ UNCHANGED <<pc, song>>
    /\ UNCHANGED <<instrVars, paramVars, cleanVars, drumVars, dynVars>>

\* Lines 423-435: score.makeMeasures and score.expandRepeats may raise.
ReturnSong ==
    /\ pc = "loop"
    /\ pending = <<>>
    /\ \E finalized \in BOOLEAN :
            song' = SongResult(valid_parts, score, finalized)
    /\ pc' = "song_done"
    /\ UNCHANGED <<pending, outcome, valid_parts, score, instrVars, paramVars,
                   cleanVars, drumVars, dynVars>>

NextSong == CreateSongSetup \/ GeneratePart \/ ReturnSong

SpecSong == InitSong /\ [][NextSong]_vars

\* The instrument yielded a non-empty part: generate_part returned one.
Built(instr, o) ==
    LET part == generate_part(instr, 0, response, o)
    IN  IF part = Raised THEN FALSE ELSE Accepted(part)

\* The names of the instruments among the first Len(outcome) of the mapping
\* that yielded a non-empty part, in order.
RECURSIVE BuiltNames(_, _)
BuiltNames(instruments, outcomes) ==
    IF outcomes = <<>> THEN <<>>
    ELSE (IF Built(Head(instruments)[1], Head(outcomes))
          THEN <<Head(instruments)[1]>> ELSE <<>>)
            \o BuiltNames(Tail(instruments), Tail(outcomes))

\* C2: create_song returns None exactly when no instrument yielded a
\* non-empty part; otherwise it returns a score whose parts are those of the
\* instruments that yielded one, as many and in order, whatever happened to
\* the other instruments.
C2_ScoreHoldsBuiltParts ==
    pc = "song_done" =>
        LET names == IF outcome = <<>> THEN <<>>
                     ELSE BuiltNames(Flatten(instrument_groups), outcome)
        IN  /\ song = None <=> names = <<>>
            /\ song # None =>
                /\ Len(song.parts) = Len(names)
                /\ \A i \in 1..Len(names) : song.parts[i].id = names[i]

====
